---- MODULE Spec2Model ----
(***************************************************************************)
(* Model of the economic agent: the request dispatcher `run` of            *)
(* economic_agent/run.py, the EconomicAgentModule methods it dispatches to *)
(* and the Portfolio / AgentWallet / EconomicAgent classes of              *)
(* economic_agent/schemas.py.                                              *)
(*                                                                         *)
(* `run` is a coroutine whose only awaits are on the module's own methods, *)
(* and those never suspend, so one request is one atomic step.             *)
(***************************************************************************)
EXTENDS Integers, Sequences, FiniteSets, TLC

(***************************************************************************)
(* Bounds and input domains                                                *)
(***************************************************************************)
\* number of transaction_history entries when one caller makes requests
MaxHist == 2

\* number of transaction_history entries over all agents when every caller
\* makes requests
MaxShared == 1

\* number of requests one caller has in flight or answered when requests
\* interleave
MaxTasks == 3

\* caller keys (consumer_id)
Keys == {"c1", "c2"}

\* the caller of the one-caller specification
Caller == "c1"

\* token symbols
Symbols == {"ETH", "USDC"}

\* Python's None where a string is expected
None == "None"

(***************************************************************************)
(* Python values.  A value that can be of several Python types is a record *)
(* [kind, val]: kind is the type, val a mapping.                           *)
(***************************************************************************)
EmptyDict == [x \in {} |-> 0]

PyNone == [kind |-> "null", val |-> EmptyDict]

PyDict(d) == [kind |-> "map", val |-> d]

\* a non-empty string
PyStr(s) == [kind |-> "str", val |-> [s |-> s]]

\* a non-empty list of mappings
PyList == [kind |-> "list", val |-> [n |-> 1]]

\* bool(x): None and empty containers are falsy
Truthy(x) == x.kind # "null" /\ DOMAIN x.val # {}

\* d.get(k, dflt)
Get(d, k, dflt) == IF k \in DOMAIN d THEN d[k] ELSE dflt

\* numbers and strings as they arrive in a tx's amount or a default_price:
\* a number n, the string that spells n, a string that spells no number
Num(n) == [k |-> "num", v |-> n]

NumStr(n) == [k |-> "str", v |-> n]

Junk == [k |-> "junk", v |-> 0]

\* float(x): a number or a numeric string converts, anything else raises
FloatOk(x) == x.k \in {"num", "str"}

FloatOf(x) == x.v

\* abs(x)
Abs(n) == IF n < 0 THEN 0 - n ELSE n

(***************************************************************************)
(* Results of a call: a returned value or a raised exception, each with    *)
(* the module object as the call left it.                                  *)
(***************************************************************************)
Ret(m, r) == [m |-> m, raised |-> FALSE, val |-> r]

Raise(m, msg) == [m |-> m, raised |-> TRUE, val |-> msg]

\* a message: its format and the name it is formatted with
Msg(fmt, name) == [fmt |-> fmt, name |-> name]

\* AttributeError of a missing attribute
NoAttribute(type, name) == Msg(type \o " object has no attribute {}", name)

\* TypeError of calling a value that is not callable
NotCallable(type) == Msg("{} object is not callable", type)

NotInitialized == Msg("Agent not initialized. Call create first.", "")

(***************************************************************************)
(* schemas.py                                                              *)
(***************************************************************************)
\* AgentWallet.format_transaction; the two fee defaults are wei amounts, the
\* first beyond 32-bit integers: both are written as decimal numerals
format_transaction(address, tx_data) ==
    [from |-> address,
     to |-> Get(tx_data, "to", None),
     value |-> Get(tx_data, "value", 0),
     data |-> Get(tx_data, "data", "0x"),
     chainId |-> 1,
     nonce |-> Get(tx_data, "nonce", 0),
     gas |-> Get(tx_data, "gas", 21000),
     maxFeePerGas |-> Get(tx_data, "maxFeePerGas", "20000000000"),
     maxPriorityFeePerGas |-> Get(tx_data, "maxPriorityFeePerGas", "1500000000")]

\* AgentWallet.sign_transaction
wallet_sign_transaction(address, tx_data) ==
    [signed |-> TRUE,
     chain |-> "ethereum",
     address |-> address,
     tx_data |-> format_transaction(address, tx_data),
     network |-> "ethereum",
     chainId |-> 1,
     status |-> "signed"]

\* Portfolio.get_token_balance
get_token_balance(balances, symbol) == Get(balances, symbol, 0)

\* adjust_token_balance with the delta subtracted
adjust_token_balance_negated(balances, symbol, delta) ==
    [s \in DOMAIN balances \cup {symbol} |->
        IF s = symbol THEN get_token_balance(balances, symbol) - delta
        ELSE balances[s]]

\* Portfolio.adjust_token_balance
adjust_token_balance(balances, symbol, delta) ==
    [s \in DOMAIN balances \cup {symbol} |->
        IF s = symbol THEN get_token_balance(balances, symbol) + delta
        ELSE balances[s]]

\* dict.update that keeps the entries already present
UpdateKeepsOld(balances, h) ==
    [s \in DOMAIN balances \cup DOMAIN h |->
        IF s \in DOMAIN balances THEN balances[s] ELSE h[s]]

\* an update that adds the supplied values to the old ones
UpdateAdds(balances, h) ==
    [s \in DOMAIN balances \cup DOMAIN h |->
        IF s \in DOMAIN h
        THEN (IF s \in DOMAIN balances THEN balances[s] ELSE 0) + h[s]
        ELSE balances[s]]

\* dict.update
Update(balances, h) ==
    [s \in DOMAIN balances \cup DOMAIN h |->
        IF s \in DOMAIN h THEN h[s] ELSE balances[s]]

RECURSIVE SumOver(_, _, _, _)
\* sum(balance * price_feeds.get(symbol, default_price) for symbol, balance in items)
SumOver(S, balances, price_feeds, default_price) ==
    IF S = {} THEN 0
    ELSE LET s == CHOOSE x \in S : TRUE
         IN balances[s] * Get(price_feeds, s, default_price)
            + SumOver(S \ {s}, balances, price_feeds, default_price)

\* get_total_value that prices a symbol missing from price_feeds at 0
get_total_value_no_default(balances, price_feeds, default_price) ==
    LET pf == IF ~Truthy(price_feeds) THEN EmptyDict ELSE price_feeds.val
    IN SumOver(DOMAIN balances, balances, pf, 0)

\* Portfolio.get_total_value; price_feeds is None or a mapping
get_total_value(balances, price_feeds, default_price) ==
    LET pf == IF ~Truthy(price_feeds) THEN EmptyDict ELSE price_feeds.val
    IN SumOver(DOMAIN balances, balances, pf, default_price)

\* a history that takes the new entry at its head
PrependTx(history, tx) == <<tx>> \o history

\* `self.transaction_history.append(tx)`
AppendTx(history, tx) == Append(history, tx)

\* Portfolio.record_transaction: the entry is appended first, then the
\* balance is adjusted by float(amount), which raises when amount is no number
record_transaction(m, tx) ==
    LET m1 == [m EXCEPT !.history = AppendTx(@, tx)]
    IN IF "symbol" \in DOMAIN tx /\ "amount" \in DOMAIN tx
       THEN IF FloatOk(tx.amount)
            THEN Ret([m1 EXCEPT !.balances =
                        adjust_token_balance(@, tx.symbol, FloatOf(tx.amount))], None)
            ELSE Raise(m1, Msg("could not convert string to float: {}", "abc"))
       ELSE Ret(m1, None)

(***************************************************************************)
(* State                                                                   *)
(***************************************************************************)
VARIABLES
    agents,    \* run._agents: caller key -> EconomicAgentModule
    nextId,    \* the ids handed out so far (uuid4 is fresh every time)
    lastReq,   \* the request handled last
    resp,      \* the envelope `run` returned for it
    tasks      \* the coroutines of `run` that interleave: task -> its position

vars == <<agents, nextId, lastReq, resp, tasks>>

\* a key that is not in run._agents
NoModule ==
    [exists |-> FALSE, id |-> 0, address |-> 0,
     balances |-> EmptyDict, history |-> <<>>]

\* EconomicAgentModule.__init__ with EconomicAgent(generate_wallet=True):
\* a fresh id, a generated wallet, an empty Portfolio
NewModule(id) ==
    [exists |-> TRUE, id |-> id, address |-> id,
     balances |-> EmptyDict, history |-> <<>>]

NoRequest == [consumer_id |-> None, func_name |-> "", data |-> PyNone]

TaskIds == 1..MaxTasks

\* a coroutine of `run` that has not started
IdleTask ==
    [pc |-> "idle", consumer_id |-> None, func_name |-> "", data |-> PyNone,
     agent_id |-> 0, result |-> [status |-> "none"]]

Init ==
    /\ agents = [k \in Keys |-> NoModule]
    /\ nextId = 0
    /\ lastReq = NoRequest
    /\ resp = [status |-> "none"]
    /\ tasks = [t \in TaskIds |-> IdleTask]


(***************************************************************************)
(* run.py: EconomicAgentModule.  m is the module object with its agent.     *)
(***************************************************************************)
ModuleType == "EconomicAgentModule"

\* pydantic model objects define neither __bool__ nor __len__: `not
\* self.agent` is False for every EconomicAgent
AgentFalsy(m) == FALSE

\* wallet.model_dump()
WalletDump(m) == [chain |-> "ethereum", address |-> m.address, private_key |-> m.address]

\* holdings.model_dump()
HoldingsDump(m) == [token_balances |-> m.balances, transaction_history |-> m.history]

\* EconomicAgentModule.create
create(m, initial_holdings) ==
    IF Truthy(initial_holdings) /\ initial_holdings.kind # "map"
    THEN Raise(m, Msg("dictionary update sequence element #0 has length 1; 2 is required", ""))
    ELSE LET m1 == IF Truthy(initial_holdings)
                   THEN [m EXCEPT !.balances = Update(@, initial_holdings.val)]
                   ELSE m
         IN Ret(m1, [status |-> "success",
                     agent_id |-> m1.id,
                     wallet |-> WalletDump(m1),
                     holdings |-> HoldingsDump(m1)])

\* a type list that lets every type through
AnyType == {"withdraw", "reward", "deposit", "trade", "invalid"}

\* the types add_transaction accepts
ValidTypes == {"withdraw", "reward", "deposit", "trade"}

\* a balance check that rejects nothing
InsufficientNever(current_balance, amount) == FALSE

\* the balance check with <= for <
InsufficientOrEqual(current_balance, amount) == current_balance <= amount

\* `if current_balance < amount`
Insufficient(current_balance, amount) == current_balance < amount

\* the two validation checks in the other order
ValidateTypeFirst(tx) ==
    IF tx.kind = "map" /\ Get(tx.val, "type", None) \notin ValidTypes THEN "type"
    ELSE IF \/ ~Truthy(tx)
            \/ tx.kind # "map"
            \/ ~({"type", "symbol", "amount"} \subseteq DOMAIN tx.val)
    THEN "data"
    ELSE "ok"

\* the validation of add_transaction: `if not tx or not isinstance(tx, dict)
\* or not all(k in tx ...)`, then `if tx.get("type") not in [...]`
Validate(tx) ==
    IF \/ ~Truthy(tx)
       \/ tx.kind # "map"
       \/ ~({"type", "symbol", "amount"} \subseteq DOMAIN tx.val)
    THEN "data"
    ELSE IF tx.val.type \notin ValidTypes THEN "type"
    ELSE "ok"

\* a balance check applied to every type
ChecksEveryType(type) == TRUE

\* `tx.get("type") in ["withdraw", "trade"]`
ChecksBalance(type) == type \in {"withdraw", "trade"}

\* a balance check applied to every amount
AnyAmount(amount) == TRUE

\* `tx.get("amount", 0) < 0`
IsDebit(amount) == amount < 0

\* EconomicAgentModule.add_transaction; tx is the request's func_input
add_transaction(m, tx) ==
    IF AgentFalsy(m) THEN Ret(m, [status |-> "error", message |-> NotInitialized])
    ELSE IF Validate(tx) = "data"
    THEN Ret(m, [status |-> "error",
                 message |-> Msg("Invalid transaction data - must include type, symbol and amount", "")])
    ELSE IF Validate(tx) = "type"
    THEN Ret(m, [status |-> "error",
                 message |-> Msg("Invalid transaction type - only withdraw and deposit allowed", ""),
                 transaction |-> tx.val])
    ELSE IF ChecksBalance(tx.val.type) /\ tx.val.amount.k # "num"
    THEN Raise(m, Msg("'<' not supported between instances of {} and 'int'", "str"))
    ELSE IF /\ ChecksBalance(tx.val.type)
            /\ IsDebit(tx.val.amount.v)
            /\ Insufficient(get_token_balance(m.balances, tx.val.symbol),
                            Abs(tx.val.amount.v))
    THEN Ret(m, [status |-> "error",
                 message |-> [fmt |-> "Insufficient {} balance. Have {}, need {}",
                              name |-> tx.val.symbol,
                              have |-> get_token_balance(m.balances, tx.val.symbol),
                              need |-> Abs(tx.val.amount.v)],
                 transaction |-> tx.val])
    ELSE LET r == record_transaction(m, tx.val)
         IN IF r.raised THEN r
            ELSE Ret(r.m, [status |-> "success", transaction |-> tx.val])

\* EconomicAgentModule.get_token_balance
module_get_token_balance(m, symbol) ==
    IF AgentFalsy(m) THEN Ret(m, [status |-> "error", message |-> NotInitialized])
    ELSE Ret(m, [status |-> "success", symbol |-> symbol,
                 balance |-> get_token_balance(m.balances, symbol)])

\* EconomicAgentModule.get_portfolio_value
get_portfolio_value(m, price_feeds, default_price) ==
    IF AgentFalsy(m) THEN Ret(m, [status |-> "error", message |-> NotInitialized])
    ELSE Ret(m, [status |-> "success",
                 value |-> get_total_value(m.balances, price_feeds, default_price)])

\* {**a, **b}
Spread(a, b) == [f \in DOMAIN a \cup DOMAIN b |-> IF f \in DOMAIN b THEN b[f] ELSE a[f]]

\* EconomicAgentModule.sign_transaction
sign_transaction(m, tx_data) ==
    IF AgentFalsy(m) THEN Ret(m, [status |-> "error", message |-> NotInitialized])
    ELSE IF tx_data.kind # "map"
    THEN Raise(m, NoAttribute(tx_data.kind, "get"))
    ELSE Ret(m, Spread([status |-> "success"],
                       wallet_sign_transaction(m.address, tx_data.val)))


(***************************************************************************)
(* run.py: run                                                             *)
(***************************************************************************)
Methods == {"create", "add_transaction", "get_token_balance",
            "get_portfolio_value", "sign_transaction"}

\* the attributes getattr finds on the module object: its methods and the
\* instance attributes set by __init__ (names inherited from `object` are
\* not among the operation names requested here)
HasAttr(m, name) ==
    \/ name \in Methods
    \/ name \in {"agent", "deployment", "consumer_id"}

\* the type of a data attribute's value
AttrType(name) ==
    CASE name = "agent" -> "EconomicAgent"
      [] name = "deployment" -> "AgentDeployment"
      [] OTHER -> "str"

\* `if not method`: a data attribute that is falsy; the agent and the
\* deployment are model objects, the consumer_id is the non-empty caller key
MethodFalsy(m, name) == FALSE

\* the body of run's try block after the module object has been resolved
dispatch(m, func_name, func_input_data) ==
    IF ~HasAttr(m, func_name) THEN Raise(m, NoAttribute(ModuleType, func_name))
    ELSE IF MethodFalsy(m, func_name)
    THEN Ret(m, [status |-> "error", message |-> Msg("Invalid function name: {}", func_name)])
    ELSE
    LET func_input == IF Truthy(func_input_data) THEN func_input_data ELSE PyDict(EmptyDict)
        NoGet == Raise(m, NoAttribute(func_input.kind, "get"))
    IN CASE func_name = "create" ->
              IF func_input.kind # "map" THEN NoGet
              ELSE create(m, Get(func_input.val, "initial_holdings", PyNone))
         [] func_name = "add_transaction" -> add_transaction(m, func_input)
         [] func_name = "get_token_balance" ->
              IF func_input.kind # "map" THEN NoGet
              ELSE module_get_token_balance(m, Get(func_input.val, "symbol", None))
         [] func_name = "get_portfolio_value" ->
              IF func_input.kind # "map" THEN NoGet
              ELSE LET dp == Get(func_input.val, "default_price", Num(0))
                   IN IF ~FloatOk(dp)
                      THEN Raise(m, Msg("could not convert string to float: {}", "abc"))
                      ELSE get_portfolio_value(m, Get(func_input.val, "price_feeds", PyNone),
                                               FloatOf(dp))
         [] func_name = "sign_transaction" -> sign_transaction(m, func_input)
         [] OTHER -> Raise(m, NotCallable(AttrType(func_name)))

\* a handler that lets the exception through
Reraise(r) == r.val

\* except Exception as e: return {"status": "error", "message": str(e)}
Envelope(r) == IF r.raised THEN [status |-> "error", message |-> r.val] ELSE r.val

\* a lookup that constructs a module object for every request
AlwaysNew(a, id, agent_key) == NewModule(id + 1)

\* a registry that hands any registered module to every key
ResolveShared(a, id, agent_key) ==
    IF \E k \in Keys : a[k].exists
    THEN a[CHOOSE k \in Keys : a[k].exists]
    ELSE NewModule(id + 1)

\* `if agent_key not in run._agents`: the registered module object, or a new
\* one with a fresh agent
Resolve(a, id, agent_key) ==
    IF ~a[agent_key].exists THEN NewModule(id + 1) ELSE a[agent_key]

\* one request: resolve or create the module object of the caller key,
\* dispatch, convert an exception into an envelope
run(consumer_id, func_name, func_input_data) ==
    LET known == agents[consumer_id].exists
        agent_module == Resolve(agents, nextId, consumer_id)
        r == dispatch(agent_module, func_name, func_input_data)
    IN /\ agents' = [agents EXCEPT ![consumer_id] = r.m]
       /\ nextId' = IF known THEN nextId ELSE nextId + 1
       /\ lastReq' = [consumer_id |-> consumer_id, func_name |-> func_name,
                      data |-> func_input_data]
       /\ resp' = Envelope(r)
       /\ UNCHANGED tasks

\* the number of transaction_history entries over all agents
RECURSIVE TotalHist(_, _)
TotalHist(a, K) ==
    IF K = {} THEN 0
    ELSE LET k == CHOOSE x \in K : TRUE
         IN Len(a[k].history) + TotalHist(a, K \ {k})

(***************************************************************************)
(* Requests                                                                *)
(***************************************************************************)
\* func_input_data that is no mapping: null, a string, a list
Malformed == {PyNone, PyStr("agent"), PyList}

CreateInputs ==
    {PyNone, PyStr("agent"), PyList,
     PyDict([initial_holdings |-> PyDict(EmptyDict)]),
     PyDict([initial_holdings |-> PyStr("abc")]),
     PyDict([initial_holdings |-> PyDict([ETH |-> 2])])}

Tx(type, symbol, amount) == PyDict([type |-> type, symbol |-> symbol, amount |-> amount])

TxInputs ==
    {PyNone, PyStr("agent"), PyList,
     PyDict([type |-> "deposit"]),
     PyDict([type |-> "invalid", symbol |-> "ETH"]),
     PyDict([symbol |-> "ETH", amount |-> Num(1)]),
     Tx("invalid", "ETH", Num(1)),
     Tx("invalid", "ETH", Num(-2)),
     Tx("deposit", "USDC", Num(1)),
     Tx("deposit", "ETH", Junk),
     Tx("reward", "ETH", Num(-2)),
     Tx("withdraw", "ETH", Num(-2)),
     Tx("withdraw", "ETH", Junk),
     Tx("trade", "ETH", Num(1)),
     Tx("trade", "USDC", Num(-2))}

SymbolInputs ==
    {PyNone, PyStr("agent"), PyList,
     PyDict([symbol |-> "ETH"]), PyDict([symbol |-> "USDC"])}

ValueInputs ==
    {PyNone, PyStr("agent"), PyList,
     PyDict([price_feeds |-> PyDict([ETH |-> 2])]),
     PyDict([price_feeds |-> PyDict([ETH |-> 3, USDC |-> 2]), default_price |-> Num(0)]),
     PyDict([price_feeds |-> PyDict([ETH |-> 2]), default_price |-> Num(1)]),
     PyDict([price_feeds |-> PyNone, default_price |-> NumStr(2)]),
     PyDict([default_price |-> Num(1)]),
     PyDict([default_price |-> Junk])}

SignInputs ==
    {PyNone, PyStr("agent"), PyList,
     PyDict([to |-> "0x742d"]),
     PyDict([to |-> "0x742d", value |-> 5, gas |-> 50000])}

\* operation names that `match` sends to its default case: a name the
\* module object does not have and the names of its data attributes
OtherNames == {"transfer", "agent", "deployment", "consumer_id"}

OtherInputs == {PyNone, PyStr("agent"), PyDict([symbol |-> "ETH"])}

Create(k) == \E d \in CreateInputs : run(k, "create", d)

AddTransaction(k, max) ==
    \E d \in TxInputs :
        /\ run(k, "add_transaction", d)
        /\ TotalHist(agents', Keys) <= max

GetTokenBalance(k) == \E d \in SymbolInputs : run(k, "get_token_balance", d)

GetPortfolioValue(k) == \E d \in ValueInputs : run(k, "get_portfolio_value", d)

SignTransaction(k) == \E d \in SignInputs : run(k, "sign_transaction", d)

OtherOperation(k) == \E name \in OtherNames, d \in OtherInputs : run(k, name, d)

\* the requests of every caller key
Next ==
    \E k \in Keys :
        \/ Create(k)
        \/ AddTransaction(k, MaxShared)
        \/ GetTokenBalance(k)
        \/ GetPortfolioValue(k)
        \/ SignTransaction(k)
        \/ OtherOperation(k)

Spec == Init /\ [][Next]_vars

\* the requests of one caller key, with a longer ledger
NextLedger ==
    \/ Create(Caller)
    \/ AddTransaction(Caller, MaxHist)
    \/ GetTokenBalance(Caller)
    \/ GetPortfolioValue(Caller)
    \/ SignTransaction(Caller)
    \/ OtherOperation(Caller)

SpecLedger == Init /\ [][NextLedger]_vars

(***************************************************************************)
(* run.py: run, as coroutines that interleave at `await method(...)`       *)
(***************************************************************************)
\* the requests that interleave: operation name and func_input_data
TaskInputs ==
    {<<"create", PyDict([initial_holdings |-> PyDict([ETH |-> 2])])>>,
     <<"create", PyNone>>,
     <<"add_transaction", Tx("withdraw", "ETH", Num(-2))>>,
     <<"add_transaction", Tx("deposit", "USDC", Num(1))>>,
     <<"get_token_balance", PyDict([symbol |-> "ETH"])>>}

\* run up to its `await`: the code from the registry lookup to the call of the
\* method has no suspension point, so the module of the key is resolved or
\* created and registered in one step; the coroutine then holds that module
Begin(t, consumer_id) ==
    \E in \in TaskInputs :
        LET known == agents[consumer_id].exists
            agent_module == Resolve(agents, nextId, consumer_id)
        IN /\ tasks[t].pc = "idle"
           /\ agents' = [agents EXCEPT ![consumer_id] = agent_module]
           /\ nextId' = IF known THEN nextId ELSE nextId + 1
           /\ tasks' = [tasks EXCEPT ![t] =
                          [pc |-> "await", consumer_id |-> consumer_id,
                           func_name |-> in[1], data |-> in[2],
                           agent_id |-> agent_module.id,
                           result |-> [status |-> "none"]]]
           /\ UNCHANGED <<lastReq, resp>>

\* a coroutine that acts on an agent of its own instead of the registered one
HeldFresh(a, task) == NewModule(task.agent_id)

\* `method = getattr(agent_module, ...)`: the bound method acts on the module
\* object the coroutine resolved, which is the one registered under its key
HeldModule(a, task) == a[task.consumer_id]

\* run from its `await` to its return: the method body has no suspension
\* point and acts on the registered module; an exception becomes an envelope
Finish(t) ==
    LET k == tasks[t].consumer_id
        r == dispatch(HeldModule(agents, tasks[t]), tasks[t].func_name, tasks[t].data)
    IN /\ tasks[t].pc = "await"
       /\ agents' = [agents EXCEPT ![k] = r.m]
       /\ tasks' = [tasks EXCEPT ![t].pc = "done", ![t].result = Envelope(r)]
       /\ UNCHANGED <<nextId, lastReq, resp>>

\* the requests of one caller key, interleaved
NextConcurrent ==
    \E t \in TaskIds :
        \/ Begin(t, Caller)
        \/ Finish(t)

SpecConcurrent == Init /\ [][NextConcurrent]_vars


(***************************************************************************)
(* Properties                                                              *)
(***************************************************************************)
\* a request has been handled
Handled == lastReq.func_name # ""

\* the request handled last is func_name under caller key k
IsReq(req, k, func_name) == req.consumer_id = k /\ req.func_name = func_name

\* the balance of symbol s in the agent of key k (0.0 before the agent exists)
Balance(a, k, s) == get_token_balance(a[k].balances, s)

\* the amount a history entry contributes to its symbol: its amount as a
\* number; an entry whose amount is no number has adjusted no balance
AmountOf(tx) == IF tx.amount.k \in {"num", "str"} THEN tx.amount.v ELSE 0

RECURSIVE HistorySum(_, _)
\* sum(tx.amount for tx in history if tx.symbol == s)
HistorySum(history, s) ==
    IF history = <<>> THEN 0
    ELSE LET tx == history[Len(history)]
         IN HistorySum(SubSeq(history, 1, Len(history) - 1), s)
            + (IF tx.symbol = s THEN AmountOf(tx) ELSE 0)

\* what the balance of s holds beyond the recorded amounts
Seeded(a, k, s) == Balance(a, k, s) - HistorySum(a[k].history, s)

\* the request is a create whose initial_holdings is a non-empty mapping
SeedsHoldings(req) ==
    /\ req.func_name = "create"
    /\ req.data.kind = "map"
    /\ "initial_holdings" \in DOMAIN req.data.val
    /\ req.data.val.initial_holdings.kind = "map"
    /\ DOMAIN req.data.val.initial_holdings.val # {}

\* C1 as claimed: in every state the balance of each symbol equals the sum of
\* the amounts of the transaction_history entries for that symbol
C1_BalanceIsHistorySum ==
    \A k \in Keys : \A s \in Symbols :
        agents[k].exists => Balance(agents, k, s) = HistorySum(agents[k].history, s)

\* C1 amended: the balance of a symbol equals the sum of the amounts of its
\* history entries until a create supplies initial_holdings naming the symbol;
\* such a create sets the balance to the supplied value and records nothing,
\* and every other request leaves (balance - sum of recorded amounts) as it is
C1_BalanceIsSeedPlusHistory ==
    /\ \A k \in Keys : \A s \in Symbols : Seeded(agents, k, s) = 0
    /\ [][\A k \in Keys : \A s \in Symbols :
            IF /\ SeedsHoldings(lastReq') /\ lastReq'.consumer_id = k
               /\ s \in DOMAIN lastReq'.data.val.initial_holdings.val
            THEN /\ Balance(agents', k, s) = lastReq'.data.val.initial_holdings.val[s]
                 /\ agents'[k].history = agents[k].history
            ELSE Seeded(agents', k, s) = Seeded(agents, k, s)]_vars

\* C1 witness: a seeded symbol whose balance has since been moved by a
\* recorded transaction
C1_Witness ==
    /\ IsReq(lastReq, Caller, "add_transaction") /\ resp.status = "success"
    /\ Len(agents[Caller].history) >= 2
    /\ HistorySum(agents[Caller].history, "ETH") = 0 - 2
    /\ Seeded(agents, Caller, "ETH") = 2

\* the request is an add_transaction of type withdraw or trade with a
\* negative amount
IsNegativeWithdrawal(req) ==
    /\ req.func_name = "add_transaction"
    /\ req.data.kind = "map"
    /\ {"type", "symbol", "amount"} \subseteq DOMAIN req.data.val
    /\ req.data.val.type \in {"withdraw", "trade"}
    /\ req.data.val.amount.k = "num"
    /\ req.data.val.amount.v < 0

\* the request left the ledger of every agent as it was
LedgersUnchanged ==
    \A k \in Keys :
        /\ agents'[k].balances = agents[k].balances
        /\ agents'[k].history = agents[k].history

\* C2: a withdraw or trade with amount < 0 is answered with an error exactly
\* when the balance of the symbol is less than abs(amount), and a rejected
\* one leaves every balance and the transaction_history unchanged
C2_InsufficientBalance ==
    [][IsNegativeWithdrawal(lastReq') =>
        LET k == lastReq'.consumer_id
            tx == lastReq'.data.val
        IN /\ resp'.status = "error" <=> Balance(agents, k, tx.symbol) < Abs(tx.amount.v)
           /\ resp'.status = "error" => LedgersUnchanged]_vars

\* C2 witness: a trade of -2 rejected against a balance of 1
C2_Witness ==
    /\ IsNegativeWithdrawal(lastReq)
    /\ resp.status = "error"
    /\ Balance(agents, lastReq.consumer_id, lastReq.data.val.symbol) = 1

\* C3 as claimed: a request other than create under a caller key for which
\* no request (hence no create) has been handled yet answers with an error
C3_NotInitialized ==
    [][\A k \in Keys :
        (/\ ~agents[k].exists
         /\ lastReq'.consumer_id = k
         /\ lastReq'.func_name \in Methods \ {"create"})
        => resp'.status = "error"]_vars


\* the request is an add_transaction whose tx fails validation: null or not
\* a mapping, a required key missing, or a type outside the four accepted
FailsValidation(req) ==
    /\ req.func_name = "add_transaction"
    /\ \/ req.data.kind # "map"
       \/ ~({"type", "symbol", "amount"} \subseteq DOMAIN req.data.val)
       \/ req.data.val.type \notin {"withdraw", "reward", "deposit", "trade"}

\* C4: an add_transaction that fails validation answers status "error" and
\* records nothing: every balance and the transaction_history are unchanged
C4_ValidationFailure ==
    [][FailsValidation(lastReq') => resp'.status = "error" /\ LedgersUnchanged]_vars

\* C4 witness: a tx of type "invalid" rejected by an agent that holds a
\* balance and a history
C4_Witness ==
    /\ FailsValidation(lastReq)
    /\ lastReq.data.kind = "map"
    /\ "type" \in DOMAIN lastReq.data.val /\ lastReq.data.val.type = "invalid"
    /\ resp.status = "error"
    /\ agents[lastReq.consumer_id].history # <<>>
    /\ Balance(agents, lastReq.consumer_id, "USDC") = 1

\* C5 as claimed: every response has status "success" or "error" and carries
\* a message only when the status is "error"
C5_EnvelopeShape ==
    Handled =>
        /\ resp.status \in {"success", "error"}
        /\ "message" \in DOMAIN resp => resp.status = "error"

\* the request is a create whose arguments are null or a mapping, with
\* initial_holdings absent, null or a mapping
WellFormedCreate(req) ==
    /\ req.func_name = "create"
    /\ req.data.kind \in {"null", "map"}
    /\ "initial_holdings" \in DOMAIN req.data.val
        => req.data.val.initial_holdings.kind \in {"null", "map"}

AsksBalance(req, s) ==
    /\ req.func_name = "get_token_balance"
    /\ req.data.kind = "map"
    /\ "symbol" \in DOMAIN req.data.val
    /\ req.data.val.symbol = s

\* C7: a get_token_balance right after a create with initial_holdings
\* returns the seeded value of a seeded symbol, and a create adds no entry to
\* any transaction_history
C7_SeedIsReadBack ==
    [][/\ lastReq'.func_name = "create" =>
            \A k \in Keys : agents'[k].history = agents[k].history
       /\ \A s \in Symbols :
            (/\ SeedsHoldings(lastReq)
             /\ s \in DOMAIN lastReq.data.val.initial_holdings.val
             /\ lastReq'.consumer_id = lastReq.consumer_id
             /\ AsksBalance(lastReq', s))
            => /\ resp'.status = "success"
               /\ resp'.balance = lastReq.data.val.initial_holdings.val[s]]_vars

\* C7 witness: the seeded 2 ETH read back from an agent whose balance before
\* the create was another one
C7_Witness ==
    /\ AsksBalance(lastReq, "ETH")
    /\ resp.status = "success" /\ resp.balance = 2
    /\ HistorySum(agents[lastReq.consumer_id].history, "ETH") = 0 - 2

\* the exception message the request must be answered with, for the
\* malformed requests: arguments that are a string or a list where a mapping
\* is read, an amount that is no number, a default_price that is no number
Malformation(req) ==
    IF /\ req.func_name \in {"create", "get_token_balance", "get_portfolio_value",
                             "sign_transaction"}
       /\ req.data.kind \in {"str", "list"}
    THEN {req.data.kind \o " object has no attribute {}"}
    ELSE IF /\ req.func_name = "add_transaction" /\ ~FailsValidation(req)
            /\ req.data.val.amount.k = "junk"
    THEN IF req.data.val.type \in {"withdraw", "trade"}
         THEN {"'<' not supported between instances of {} and 'int'"}
         ELSE {"could not convert string to float: {}"}
    ELSE IF /\ req.func_name = "get_portfolio_value" /\ req.data.kind = "map"
            /\ "default_price" \in DOMAIN req.data.val
            /\ req.data.val.default_price.k = "junk"
    THEN {"could not convert string to float: {}"}
    ELSE {}

\* C8: every request is answered with an envelope, and a malformed request
\* with status "error" and the message of the exception it caused
C8_NeverRaises ==
    Handled =>
        /\ "status" \in DOMAIN resp
        /\ \A fmt \in Malformation(lastReq) :
            /\ resp.status = "error"
            /\ "message" \in DOMAIN resp
            /\ resp.message.fmt = fmt

\* C8 witness: a deposit whose amount is no number, answered with the
\* message of float()'s exception
C8_Witness ==
    /\ lastReq.func_name = "add_transaction"
    /\ Malformation(lastReq) = {"could not convert string to float: {}"}
    /\ resp.status = "error"

\* C9 as claimed: a request whose operation name is none of the five
\* operations is answered with status "error" and a message that names the
\* requested operation
C9_UnknownOperation ==
    (Handled /\ lastReq.func_name \notin Methods) =>
        /\ resp.status = "error"
        /\ resp.message.name = lastReq.func_name

\* the request is a get_portfolio_value with price_feeds absent, null or a
\* mapping and default_price absent or a number
WellFormedValue(req) ==
    /\ req.func_name = "get_portfolio_value"
    /\ req.data.kind \in {"null", "map"}
    /\ "default_price" \in DOMAIN req.data.val
        => req.data.val.default_price.k \in {"num", "str"}

RECURSIVE Valuation(_, _, _, _)
\* the sum over the symbols S of balance * (price if priced, else dflt)
Valuation(S, balances, prices, dflt) ==
    IF S = {} THEN 0
    ELSE LET s == CHOOSE x \in S : TRUE
         IN Valuation(S \ {s}, balances, prices, dflt)
            + balances[s] * (IF s \in DOMAIN prices THEN prices[s] ELSE dflt)

\* C10: get_portfolio_value returns the sum over the symbols with a balance
\* of balance * (price_feeds[symbol] if present, else default_price), a null
\* price_feeds being the empty mapping, and changes no balance and no history
C10_PortfolioValue ==
    [][WellFormedValue(lastReq') =>
        LET b == agents[lastReq'.consumer_id].balances
            d == lastReq'.data.val
            prices == IF "price_feeds" \in DOMAIN d THEN d.price_feeds.val ELSE EmptyDict
            dflt == IF "default_price" \in DOMAIN d THEN d.default_price.v ELSE 0
        IN /\ resp'.status = "success"
           /\ resp'.value = Valuation(DOMAIN b, b, prices, dflt)
           /\ LedgersUnchanged]_vars

\* C10 witness: 2 ETH priced by the feed at 2 and 1 USDC priced at the
\* default of 1
C10_Witness ==
    /\ WellFormedValue(lastReq)
    /\ lastReq.data.kind = "map"
    /\ DOMAIN lastReq.data.val = {"price_feeds", "default_price"}
    /\ lastReq.data.val.default_price = Num(1)
    /\ Balance(agents, lastReq.consumer_id, "ETH") = 2
    /\ Balance(agents, lastReq.consumer_id, "USDC") = 1
    /\ resp.value = 5


\* the request is an add_transaction of type reward or deposit with a symbol
\* and a numeric amount
IsCredit(req) ==
    /\ req.func_name = "add_transaction"
    /\ req.data.kind = "map"
    /\ {"type", "symbol", "amount"} \subseteq DOMAIN req.data.val
    /\ req.data.val.type \in {"reward", "deposit"}
    /\ req.data.val.amount.k = "num"

\* C11: a reward or deposit with a numeric amount answers status "success"
\* whatever the balance and the sign of the amount, and the balance of its
\* symbol afterwards is the previous balance plus the amount
C11_CreditAccepted ==
    [][IsCredit(lastReq') =>
        LET k == lastReq'.consumer_id
            tx == lastReq'.data.val
        IN /\ resp'.status = "success"
           /\ Balance(agents', k, tx.symbol)
                = Balance(agents, k, tx.symbol) + tx.amount.v]_vars

\* C11 witness: a reward of -2 accepted by an agent that then owes 2
C11_Witness ==
    /\ IsCredit(lastReq) /\ lastReq.data.val.amount.v < 0
    /\ resp.status = "success"
    /\ Balance(agents, lastReq.consumer_id, lastReq.data.val.symbol) = 0 - 2


\* C12: a sign_transaction request whose payload is not a mapping (null, a
\* string, a list) is treated as an empty payload: the answer is a signed
\* record whose body holds the defaults
C12_NonMappingSignsDefaults ==
    (lastReq.func_name = "sign_transaction" /\ lastReq.data.kind # "map") =>
        /\ "signed" \in DOMAIN resp
        /\ resp.signed
        /\ resp.tx_data
             = format_transaction(agents[lastReq.consumer_id].address, EmptyDict)


\* C13: after any add_transaction request, the transaction_history has gained
\* an entry carrying symbol and amount if and only if the balance of that
\* symbol was adjusted by that amount; a request that appends nothing changes
\* no balance
C13_RecordingAtomic ==
    [][lastReq'.func_name = "add_transaction" =>
        LET k == lastReq'.consumer_id
            before == agents[k].history
            after == agents'[k].history
        IN IF Len(after) > Len(before)
           THEN LET tx == after[Len(after)]
                IN /\ FloatOk(tx.amount)
                   /\ Balance(agents', k, tx.symbol)
                        = Balance(agents, k, tx.symbol) + FloatOf(tx.amount)
           ELSE agents'[k].balances = agents[k].balances]_vars


\* the request is an add_transaction of type withdraw or trade with a symbol
\* and a numeric amount >= 0
IsNonNegativeDebit(req) ==
    /\ req.func_name = "add_transaction"
    /\ req.data.kind = "map"
    /\ {"type", "symbol", "amount"} \subseteq DOMAIN req.data.val
    /\ req.data.val.type \in {"withdraw", "trade"}
    /\ req.data.val.amount.k = "num"
    /\ req.data.val.amount.v >= 0

\* C14: a withdraw or trade with amount >= 0 is answered with status
\* "success" whatever the balance of the symbol, the transaction is appended
\* to the transaction_history and the amount is added to the balance
C14_NonNegativeNeverRejected ==
    [][IsNonNegativeDebit(lastReq') =>
        LET k == lastReq'.consumer_id
            tx == lastReq'.data.val
        IN /\ resp'.status = "success"
           /\ agents'[k].history = Append(agents[k].history, tx)
           /\ Balance(agents', k, tx.symbol)
                = Balance(agents, k, tx.symbol) + tx.amount.v]_vars

\* C14 witness: a trade of 1 accepted by an agent whose balance was -2
C14_Witness ==
    /\ IsNonNegativeDebit(lastReq)
    /\ resp.status = "success"
    /\ Balance(agents, lastReq.consumer_id, lastReq.data.val.symbol)
         = lastReq.data.val.amount.v - 2


\* the request is an add_transaction whose tx is a mapping without one of
\* the required keys
MissesKey(req) ==
    /\ req.func_name = "add_transaction"
    /\ req.data.kind = "map"
    /\ ~({"type", "symbol", "amount"} \subseteq DOMAIN req.data.val)

\* the request is an add_transaction whose tx has the required keys and a
\* type outside reward, deposit, withdraw, trade
HasInvalidType(req) ==
    /\ req.func_name = "add_transaction"
    /\ req.data.kind = "map"
    /\ {"type", "symbol", "amount"} \subseteq DOMAIN req.data.val
    /\ req.data.val.type \notin {"reward", "deposit", "withdraw", "trade"}

\* C15: add_transaction reports the first check that fails: a tx missing a
\* required key is answered with the invalid-data error even when its type is
\* invalid too, and a tx with an invalid type is answered with the
\* invalid-type error whatever its amount and the balance; neither changes a
\* balance or the transaction_history
C15_ChecksInOrder ==
    [][/\ MissesKey(lastReq') =>
            /\ resp'.status = "error"
            /\ resp'.message.fmt
                 = "Invalid transaction data - must include type, symbol and amount"
            /\ LedgersUnchanged
       /\ HasInvalidType(lastReq') =>
            /\ resp'.status = "error"
            /\ resp'.message.fmt
                 = "Invalid transaction type - only withdraw and deposit allowed"
            /\ LedgersUnchanged]_vars

\* C15 witness: a tx without amount and with an invalid type was answered
\* with the invalid-data error
C15_Witness ==
    /\ MissesKey(lastReq)
    /\ "type" \in DOMAIN lastReq.data.val
    /\ lastReq.data.val.type = "invalid"
    /\ resp.status = "error"
    /\ resp.message.fmt
         = "Invalid transaction data - must include type, symbol and amount"


\* C16: a create on an agent that already exists sets the balance of each
\* symbol of initial_holdings to the supplied value and leaves the balance of
\* every other symbol, the transaction_history, the agent id and the wallet
\* unchanged; a create that supplies no holdings changes nothing
C16_CreateOverwrites ==
    [][(lastReq'.func_name = "create" /\ agents[lastReq'.consumer_id].exists) =>
        LET k == lastReq'.consumer_id
        IN IF SeedsHoldings(lastReq')
           THEN LET h == lastReq'.data.val.initial_holdings.val
                IN /\ \A s \in Symbols :
                        Balance(agents', k, s)
                          = IF s \in DOMAIN h THEN h[s] ELSE Balance(agents, k, s)
                   /\ agents'[k].history = agents[k].history
                   /\ agents'[k].id = agents[k].id
                   /\ agents'[k].address = agents[k].address
           ELSE agents'[k] = agents[k]]_vars

\* C16 witness: a create with holdings for ETH answered by an agent whose
\* history holds a non-zero ETH amount and whose USDC balance is not zero
C16_Witness ==
    /\ SeedsHoldings(lastReq)
    /\ resp.status = "success"
    /\ LET k == lastReq.consumer_id
           h == lastReq.data.val.initial_holdings.val
       IN /\ "ETH" \in DOMAIN h /\ "USDC" \notin DOMAIN h
          /\ HistorySum(agents[k].history, "ETH") # 0
          /\ Balance(agents, k, "ETH") = h.ETH
          /\ Balance(agents, k, "USDC") # 0


\* h is a prefix of g
IsPrefix(h, g) == Len(h) <= Len(g) /\ SubSeq(g, 1, Len(h)) = h

\* C17: the transaction_history is append-only: the history before a request
\* is a prefix of the history after it; an add_transaction answered with
\* status "success" appends exactly one entry, the submitted tx, at the end;
\* create, get_token_balance, get_portfolio_value and sign_transaction (and
\* any other operation name) leave the history as it was
C17_HistoryAppendOnly ==
    [][\A k \in Keys :
        /\ IsPrefix(agents[k].history, agents'[k].history)
        /\ (IsReq(lastReq', k, "add_transaction") /\ resp'.status = "success")
              => agents'[k].history = Append(agents[k].history, lastReq'.data.val)
        /\ ~IsReq(lastReq', k, "add_transaction")
              => agents'[k].history = agents[k].history]_vars

\* C17 witness: an accepted add_transaction whose tx is the last of two
\* different entries
C17_Witness ==
    /\ lastReq.func_name = "add_transaction"
    /\ resp.status = "success"
    /\ LET h == agents[lastReq.consumer_id].history
       IN /\ Len(h) >= 2
          /\ h[Len(h)] = lastReq.data.val
          /\ h[1] # h[Len(h)]


\* C18: when first requests for one caller key interleave, at most one agent
\* is created for the key: the ids handed out are as many as the keys in the
\* registry, every request that has started holds the agent the registry
\* holds for its key, and all answers to create carry that agent's id
C18_OneAgentPerKey ==
    /\ nextId = Cardinality({k \in Keys : agents[k].exists})
    /\ \A t \in TaskIds :
          tasks[t].pc # "idle" =>
              /\ agents[tasks[t].consumer_id].exists
              /\ tasks[t].agent_id = agents[tasks[t].consumer_id].id
              /\ (tasks[t].pc = "done" /\ tasks[t].func_name = "create") =>
                    /\ tasks[t].result.status = "success"
                    /\ tasks[t].result.agent_id = agents[tasks[t].consumer_id].id

\* C18 witness: two requests for the key are suspended at their await before
\* any request has been answered, and both hold the one agent created
C18_Witness ==
    /\ \A t \in TaskIds : tasks[t].pc # "done"
    /\ \E t1, t2 \in TaskIds :
          /\ t1 # t2
          /\ tasks[t1].pc = "await" /\ tasks[t2].pc = "await"
          /\ tasks[t1].consumer_id = tasks[t2].consumer_id
          /\ tasks[t1].agent_id = tasks[t2].agent_id
    /\ nextId = 1


\* C19: a request under one caller key leaves the agent of every other key
\* (its id, wallet, balances and transaction_history) as it was, and two
\* different keys never hold the same agent: their ids and wallet addresses
\* differ
C19_KeysIsolated ==
    [][/\ \A k \in Keys :
             k # lastReq'.consumer_id => agents'[k] = agents[k]
       /\ \A k1, k2 \in Keys :
             (k1 # k2 /\ agents'[k1].exists /\ agents'[k2].exists) =>
                 /\ agents'[k1].id # agents'[k2].id
                 /\ agents'[k1].address # agents'[k2].address]_vars

\* C19 witness: both keys have an agent, one seeded with holdings, and the
\* other key's add_transaction has just been recorded in its own history only
C19_Witness ==
    \E k1, k2 \in Keys :
        /\ k1 # k2
        /\ agents[k1].exists /\ agents[k2].exists
        /\ Balance(agents, k1, "ETH") = 2 /\ agents[k1].history = <<>>
        /\ IsReq(lastReq, k2, "add_transaction") /\ resp.status = "success"
        /\ Len(agents[k2].history) = 1
        /\ Balance(agents, k2, "ETH") # 2


\* C20: right after an accepted withdraw or trade with amount < 0, the
\* balance of its symbol is >= 0
C20_NoOverdraw ==
    (IsNegativeWithdrawal(lastReq) /\ resp.status = "success") =>
        Balance(agents, lastReq.consumer_id, lastReq.data.val.symbol) >= 0

\* C20 witness: a withdrawal of the whole balance was accepted and left 0
C20_Witness ==
    /\ IsNegativeWithdrawal(lastReq)
    /\ resp.status = "success"
    /\ agents[lastReq.consumer_id].history # <<>>
    /\ Balance(agents, lastReq.consumer_id, lastReq.data.val.symbol) = 0


\* the requests that have been answered
Done == {t \in TaskIds : tasks[t].pc = "done"}

\* the orders in which the requests of D can be handled one after another
Orders(D) ==
    {f \in [1..Cardinality(D) -> D] :
        \A i, j \in 1..Cardinality(D) : f[i] = f[j] => i = j}

RECURSIVE Serial(_, _, _)
\* the agent and the answers when the requests of order, from the i-th on,
\* are handled one after another, each to its return, starting from acc
Serial(order, i, acc) ==
    IF i > Len(order) THEN acc
    ELSE LET t == order[i]
             r == dispatch(acc.m, tasks[t].func_name, tasks[t].data)
         IN Serial(order, i + 1,
                   [m |-> r.m, res |-> [acc.res EXCEPT ![t] = Envelope(r)]])

\* the task is a withdraw or trade with a negative amount that was accepted
AcceptedWithdrawal(t) ==
    /\ tasks[t].pc = "done"
    /\ IsNegativeWithdrawal(tasks[t])
    /\ tasks[t].result.status = "success"

\* the task is a create with holdings that was answered
AnsweredSeed(t) == tasks[t].pc = "done" /\ SeedsHoldings(tasks[t])

\* C21: interleaved add_transaction requests of one caller key cannot jointly
\* overdraw: no balance is ever negative; withdrawals of the whole seeded
\* amount are accepted at most as many times as the amount was seeded; and
\* the agent and every answer are those of handling the answered requests one
\* after another in some order
C21_NoJointOverdraw ==
    /\ \A s \in Symbols : Balance(agents, Caller, s) >= 0
    /\ Cardinality({t \in TaskIds : AcceptedWithdrawal(t)})
         <= Cardinality({t \in TaskIds : AnsweredSeed(t)})
    /\ Done # {} =>
          \E order \in Orders(Done) :
              LET out == Serial(order, 1,
                                [m |-> NewModule(1),
                                 res |-> [t \in TaskIds |-> [status |-> "none"]]])
              IN /\ out.m = agents[Caller]
                 /\ \A t \in Done : out.res[t] = tasks[t].result

\* C21 witness: after one seed of 2, of two withdrawals of 2 one was accepted
\* and the other rejected with nothing left to take
C21_Witness ==
    \E t1, t2, t3 \in TaskIds :
        /\ t1 # t2
        /\ AnsweredSeed(t3)
        /\ AcceptedWithdrawal(t1)
        /\ tasks[t2].pc = "done" /\ IsNegativeWithdrawal(tasks[t2])
        /\ tasks[t2].result.status = "error"
        /\ tasks[t2].result.message.have = 0
        /\ Balance(agents, Caller, "ETH") = 0

====
